---- MODULE Spec2Model ----
(***************************************************************************)
(* Model of src/generate_ism_data.py: ISMDataGenerator.                    *)
(*                                                                         *)
(* Three specifications share the variables below.                         *)
(*   Spec     generate_all() from a freshly constructed generator whose    *)
(*            four configuration fields have been set: header, location    *)
(*            stage, skuloc stage, rsvehr stage, footer, console summary.  *)
(*            It follows the identifiers (loc_number, sku_id) and the      *)
(*            location type through the three stages and the file.         *)
(*   SpecLoc  generate_location_master_inserts() called directly on a      *)
(*            fresh generator, for location counts up to the __main__      *)
(*            configuration (100).                                         *)
(*   SpecQty  the quantity derivation of one skuloc row (lines 120-134):   *)
(*            these lines read and write only the row's own locals, so     *)
(*            they are followed on their own, one row at a time.           *)
(*                                                                         *)
(* random.random() is r / RandRes for r in 0..RandRes-1 (a value in        *)
(* [0, 1)); arithmetic on fractions is exact rational arithmetic.          *)
(* random.randint(lo, hi) is drawn from RandInt(lo, hi): both end points   *)
(* and every Stride-th value from lo (the code never asks for an empty     *)
(* range).  Columns of a row that no later line reads and that are pure    *)
(* independent draws (names, dates, zip, snb_qty, ...) are not carried in  *)
(* the rows.                                                               *)
(***************************************************************************)
EXTENDS Integers, Sequences, FiniteSets

VARIABLES
    num_locations, num_skus, skuloc_density, num_reserves,
    location_numbers, sku_ids,
    pc, caller, error,
    i, inserts,
    sku_pos, selected_locations, sel_pos,
    available_qty, financial_onhand,
    ecomm_pick, ecomm_pack, merch_reserve, dotcom_reserve, retail_reserve,
    channel,
    location_inserts, skuloc_inserts, rsvehr_inserts,
    file, w, console

config == <<num_locations, num_skus, skuloc_density, num_reserves>>
ids == <<location_numbers, sku_ids>>
control == <<pc, caller, error>>
skulocLoop == <<sku_pos, selected_locations, sel_pos>>
qty == <<available_qty, financial_onhand, ecomm_pick, ecomm_pack,
         merch_reserve, dotcom_reserve, retail_reserve, channel>>
results == <<location_inserts, skuloc_inserts, rsvehr_inserts>>
output == <<file, w, console>>

vars == <<config, ids, control, i, inserts, skulocLoop, qty, results, output>>

----------------------------------------------------------------------------
(* Bounds of the model *)

MaxLocations == 3
MaxSkus == 2
MaxReserves == 2
MaxPairs == 6
SparseLocations == 25
MaxLocGen == 100
RandRes == 4
Stride == 10

(* skuloc_density in percent: 0.05, 0.5 (__main__), 0.7 (__init__), 1.0 *)
Densities == {5, 50, 70, 100}

----------------------------------------------------------------------------
(* Program constants *)

LocBase == 1000
StoreLimit == 40
DcLimit == 45
SkuBase == 10000
MaxAvailable == 500
MaxOnhandExtra == 50
PickLimit == 20
PackLimit == 10
MerchLimit == 15
DotcomLimit == 25
RetailLimit == 30
MinDensity == 10

channels == <<"D", "R">>

----------------------------------------------------------------------------
(* Helpers *)

Min(a, b) == IF a <= b THEN a ELSE b

Range(s) == {s[k] : k \in 1..Len(s)}

RandInt(lo, hi) == {v \in lo..hi : v = hi \/ (v - lo) % Stride = 0}

RandomDraws == 0..(RandRes - 1)

----------------------------------------------------------------------------
(* __init__ (lines 12-39) followed by the assignment of the four          *)
(* configuration fields (as __main__ does in lines 274-277).              *)

Fresh ==
    /\ location_numbers = <<>>
    /\ sku_ids = <<>>
    /\ error = "none"
    /\ inserts = <<>>
    /\ sku_pos = 0
    /\ selected_locations = <<>>
    /\ sel_pos = 0
    /\ available_qty = 0
    /\ financial_onhand = 0
    /\ ecomm_pick = 0
    /\ ecomm_pack = 0
    /\ merch_reserve = 0
    /\ dotcom_reserve = 0
    /\ retail_reserve = 0
    /\ channel = "None"
    /\ location_inserts = <<>>
    /\ skuloc_inserts = <<>>
    /\ rsvehr_inserts = <<>>
    /\ file = <<>>
    /\ w = 0
    /\ console = <<>>

(* Configurations of the end-to-end runs: every small configuration, and  *)
(* one with many locations and a density below the lower draw bound 0.1.  *)
Configs ==
    {c \in [num_locations : 0..MaxLocations, num_skus : 0..MaxSkus,
            skuloc_density : Densities, num_reserves : 0..MaxReserves] :
        c.num_locations * c.num_skus <= MaxPairs}
    \cup
    {[num_locations |-> SparseLocations, num_skus |-> 1,
      skuloc_density |-> 5, num_reserves |-> 0]}

Init ==
    /\ \E c \in Configs :
        /\ num_locations = c.num_locations
        /\ num_skus = c.num_skus
        /\ skuloc_density = c.skuloc_density
        /\ num_reserves = c.num_reserves
    /\ pc = "generate_all"
    /\ caller = "generate_all"
    /\ i = 0
    /\ Fresh

----------------------------------------------------------------------------
(* File lines and console lines *)

Line(kind, table) == [kind |-> kind, table |-> table, row |-> <<>>]

RowLine(table, sql) == [kind |-> "row", table |-> table, row |-> sql]

(* lines 221-226 and 229-232 *)
HeaderWrites ==
    <<Line("header", "none"), Line("header", "none"), Line("header", "none"),
      Line("header", "none"), Line("header", "none"), Line("header", "none"),
      Line("cleanup", "none"), Line("cleanup", "rsvehr"),
      Line("cleanup", "skuloc"), Line("cleanup", "location_master")>>

(* the three f.write calls of a section banner *)
BannerWrites(table) ==
    <<Line("banner", table), Line("banner", table), Line("banner", table)>>

(* lines 259-260 *)
FooterWrites == <<Line("footer", "none"), Line("commit", "none")>>

ConsoleLine(label, value) == [label |-> label, value |-> value]

(* lines 213-217 *)
ConfigReport ==
    <<ConsoleLine("Locations", num_locations), ConsoleLine("SKUs", num_skus),
      ConsoleLine("density", skuloc_density), ConsoleLine("Reserve records", num_reserves)>>

(* faulty variant: the skuloc line reports the length of the location list *)
SummaryReportCopied(locs, skulocs, rsvehrs) ==
    <<ConsoleLine("Total INSERT statements", Len(locs) + Len(skulocs) + Len(rsvehrs)),
      ConsoleLine("location_master", Len(locs)),
      ConsoleLine("skuloc", Len(locs)),
      ConsoleLine("rsvehr", Len(rsvehrs))>>

(* lines 262-267 *)
SummaryReport(locs, skulocs, rsvehrs) ==
    <<ConsoleLine("Total INSERT statements", Len(locs) + Len(skulocs) + Len(rsvehrs)),
      ConsoleLine("location_master", Len(locs)),
      ConsoleLine("skuloc", Len(skulocs)),
      ConsoleLine("rsvehr", Len(rsvehrs))>>

----------------------------------------------------------------------------
(* generate_all, lines 213-238: console prints, open the file, header,    *)
(* location banner, then the call of generate_location_master_inserts.    *)

GenerateAllHeader ==
    /\ pc = "generate_all"
    /\ console' = console \o ConfigReport
    /\ file' = HeaderWrites \o BannerWrites("location_master")
    /\ inserts' = <<>>
    /\ i' = 1
    /\ pc' = "location_loop"
    /\ UNCHANGED <<config, ids, caller, error, skulocLoop, qty, results, w>>

----------------------------------------------------------------------------
(* generate_location_master_inserts, lines 41-103 *)

(* faulty variant: the loop index taken as zero-based *)
LocNumberZeroBased(k) == LocBase + k - 1

LocNumber(k) == LocBase + k

(* lines 51-56 *)
LocType(k) ==
    IF k <= StoreLimit THEN "STORE"
    ELSE IF k <= DcLimit THEN "DC"
    ELSE "VENDOR"

LocationSql(k) == [loc_number |-> LocNumber(k), loc_type |-> LocType(k)]

(* one iteration of the loop of line 46 *)
LocationIteration ==
    /\ pc = "location_loop"
    /\ i <= num_locations
    /\ location_numbers' = Append(location_numbers, LocNumber(i))
    /\ inserts' = Append(inserts, LocationSql(i))
    /\ i' = i + 1
    /\ UNCHANGED <<config, sku_ids, control, skulocLoop, qty, results, output>>

(* line 103, and the assignment of line 238 when called from generate_all *)
LocationReturn ==
    /\ pc = "location_loop"
    /\ i > num_locations
    /\ location_inserts' = inserts
    /\ pc' = IF caller = "generate_all" THEN "write_locations" ELSE "done"
    /\ w' = 1
    /\ UNCHANGED <<config, ids, caller, error, i, inserts, skulocLoop, qty,
                   skuloc_inserts, rsvehr_inserts, file, console>>

(* a direct call on a fresh generator *)
InitLoc ==
    /\ num_locations \in 0..MaxLocGen
    /\ num_skus = 0
    /\ skuloc_density = 70
    /\ num_reserves = 0
    /\ pc = "location_loop"
    /\ caller = "direct"
    /\ i = 1
    /\ Fresh

NextLoc == LocationIteration \/ LocationReturn

SpecLoc == InitLoc /\ [][NextLoc]_vars

----------------------------------------------------------------------------
(* generate_all, lines 239-240: one f.write per location insert *)

WriteLocation ==
    /\ pc = "write_locations"
    /\ w <= Len(location_inserts)
    /\ file' = Append(file, RowLine("location_master", location_inserts[w]))
    /\ w' = w + 1
    /\ UNCHANGED <<config, ids, control, i, inserts, skulocLoop, qty, results,
                   console>>

----------------------------------------------------------------------------
(* generate_skuloc_inserts, lines 105-161 *)

(* faulty variant: range(1, num_skus + 1) instead of range(num_skus) *)
SkuIdsFromOne(n) == [k \in 1..n |-> SkuBase + k]

(* line 110: [10000 + i for i in range(self.num_skus)] *)
SkuIds(n) == [k \in 1..n |-> SkuBase + (k - 1)]

(* faulty variant: round() to the nearest integer instead of int() *)
SubsetSizeRounded(count, density, r) ==
    (2 * count * (MinDensity * RandRes + (density - MinDensity) * r)
        + 100 * RandRes) \div (2 * 100 * RandRes)

(* line 115: int(count * random.uniform(0.1, density)), where              *)
(* uniform(a, b) = a + (b - a) * random(), random() = r / RandRes and the  *)
(* density is in percent.  The product is positive, so int() is the floor. *)
SubsetSize(count, density, r) ==
    (count * (MinDensity * RandRes + (density - MinDensity) * r))
        \div (100 * RandRes)

(* faulty variant: random.choices, which draws with replacement *)
SampleWithReplacement(population, k) ==
    {[j \in 1..k |-> population[f[j]]] : f \in [1..k -> 1..Len(population)]}

(* line 116: random.sample(population, k): k distinct positions, in any    *)
(* order *)
SampleOutcomes(population, k) ==
    LET positions == {f \in [1..k -> 1..Len(population)] :
                        \A a, b \in 1..k : a # b => f[a] # f[b]}
    IN {[j \in 1..k |-> population[f[j]]] : f \in positions}

SkulocSql(sku_id, loc_number) ==
    [sku_id |-> sku_id, location_number |-> loc_number]

(* generate_all lines 243-246 (skuloc banner, call) and lines 107-110 *)
SkulocBegin ==
    /\ pc = "write_locations"
    /\ w > Len(location_inserts)
    /\ file' = file \o BannerWrites("skuloc")
    /\ inserts' = <<>>
    /\ sku_ids' = SkuIds(num_skus)
    /\ sku_pos' = 1
    /\ pc' = "skuloc_sku"
    /\ UNCHANGED <<config, location_numbers, caller, error, i,
                   selected_locations, sel_pos, qty, results, w, console>>

(* lines 113-116: the next sku_id and its random subset of locations;      *)
(* random.sample raises ValueError when asked for more than there are      *)
SkulocSelect ==
    /\ pc = "skuloc_sku"
    /\ sku_pos <= Len(sku_ids)
    /\ \E r \in RandomDraws :
        LET k == SubsetSize(Len(location_numbers), skuloc_density, r)
        IN IF k > Len(location_numbers)
           THEN /\ error' = "ValueError"
                /\ pc' = "error"
                /\ UNCHANGED <<selected_locations, sel_pos>>
           ELSE /\ selected_locations' \in SampleOutcomes(location_numbers, k)
                /\ sel_pos' = 1
                /\ pc' = "skuloc_row"
                /\ UNCHANGED error
    /\ UNCHANGED <<config, ids, caller, i, inserts, sku_pos, qty, results,
                   output>>

(* lines 118 and 136-159: the row of the next selected location *)
SkulocRow ==
    /\ pc = "skuloc_row"
    /\ sel_pos <= Len(selected_locations)
    /\ inserts' = Append(inserts,
                         SkulocSql(sku_ids[sku_pos], selected_locations[sel_pos]))
    /\ sel_pos' = sel_pos + 1
    /\ UNCHANGED <<config, ids, control, i, sku_pos, selected_locations, qty,
                   results, output>>

(* the inner loop is exhausted: back to line 113 *)
SkulocNextSku ==
    /\ pc = "skuloc_row"
    /\ sel_pos > Len(selected_locations)
    /\ sku_pos' = sku_pos + 1
    /\ pc' = "skuloc_sku"
    /\ UNCHANGED <<config, ids, caller, error, i, inserts, selected_locations,
                   sel_pos, qty, results, output>>

(* line 161 and the assignment of line 246 *)
SkulocReturn ==
    /\ pc = "skuloc_sku"
    /\ sku_pos > Len(sku_ids)
    /\ skuloc_inserts' = inserts
    /\ w' = 1
    /\ pc' = "write_skulocs"
    /\ UNCHANGED <<config, ids, caller, error, i, inserts, skulocLoop, qty,
                   location_inserts, rsvehr_inserts, file, console>>

(* lines 247-248 *)
WriteSkuloc ==
    /\ pc = "write_skulocs"
    /\ w <= Len(skuloc_inserts)
    /\ file' = Append(file, RowLine("skuloc", skuloc_inserts[w]))
    /\ w' = w + 1
    /\ UNCHANGED <<config, ids, control, i, inserts, skulocLoop, qty, results,
                   console>>

----------------------------------------------------------------------------
(* generate_rsvehr_inserts, lines 163-209 *)

RsvehrSql(sku_id, loc_number) ==
    [sku_id |-> sku_id, location_number |-> loc_number]

(* generate_all lines 251-254 (rsvehr banner, call) and line 165 *)
RsvehrBegin ==
    /\ pc = "write_skulocs"
    /\ w > Len(skuloc_inserts)
    /\ file' = file \o BannerWrites("rsvehr")
    /\ inserts' = <<>>
    /\ i' = 1
    /\ pc' = "rsvehr_loop"
    /\ UNCHANGED <<config, ids, caller, error, skulocLoop, qty, results, w,
                   console>>

(* one iteration of the loop of line 167; random.choice of an empty        *)
(* sequence raises IndexError, which nothing catches: the with block       *)
(* closes the file as it is and the process ends                           *)
RsvehrIteration ==
    /\ pc = "rsvehr_loop"
    /\ i <= num_reserves
    /\ IF sku_ids = <<>> \/ location_numbers = <<>>
       THEN /\ error' = "IndexError"
            /\ pc' = "error"
            /\ UNCHANGED <<i, inserts>>
       ELSE /\ \E sku_id \in Range(sku_ids), loc_number \in Range(location_numbers) :
                inserts' = Append(inserts, RsvehrSql(sku_id, loc_number))
            /\ i' = i + 1
            /\ UNCHANGED <<pc, error>>
    /\ UNCHANGED <<config, ids, caller, skulocLoop, qty, results, output>>

(* line 209 and the assignment of line 254 *)
RsvehrReturn ==
    /\ pc = "rsvehr_loop"
    /\ i > num_reserves
    /\ rsvehr_inserts' = inserts
    /\ w' = 1
    /\ pc' = "write_rsvehrs"
    /\ UNCHANGED <<config, ids, caller, error, i, inserts, skulocLoop, qty,
                   location_inserts, skuloc_inserts, file, console>>

(* lines 255-256 *)
WriteRsvehr ==
    /\ pc = "write_rsvehrs"
    /\ w <= Len(rsvehr_inserts)
    /\ file' = Append(file, RowLine("rsvehr", rsvehr_inserts[w]))
    /\ w' = w + 1
    /\ UNCHANGED <<config, ids, control, i, inserts, skulocLoop, qty, results,
                   console>>

(* lines 258-267: footer, COMMIT, close, console summary *)
GenerateAllFooter ==
    /\ pc = "write_rsvehrs"
    /\ w > Len(rsvehr_inserts)
    /\ file' = file \o FooterWrites
    /\ console' = console \o
                  SummaryReport(location_inserts, skuloc_inserts, rsvehr_inserts)
    /\ pc' = "done"
    /\ UNCHANGED <<config, ids, caller, error, i, inserts, skulocLoop, qty,
                   results, w>>

Next ==
    \/ GenerateAllHeader
    \/ LocationIteration
    \/ LocationReturn
    \/ WriteLocation
    \/ SkulocBegin
    \/ SkulocSelect
    \/ SkulocRow
    \/ SkulocNextSku
    \/ SkulocReturn
    \/ WriteSkuloc
    \/ RsvehrBegin
    \/ RsvehrIteration
    \/ RsvehrReturn
    \/ WriteRsvehr
    \/ GenerateAllFooter

Spec == Init /\ [][Next]_vars

----------------------------------------------------------------------------
(* The quantities of one skuloc row, lines 120-134 *)

(* faulty variant: the merch draw forgets what the pack draw took *)
MerchCapPackForgotten(available, pick, pack) ==
    Min(MerchLimit, available - pick)

(* faulty variant: the dotcom draw not capped against available_qty *)
DotcomCapFixed(available) == DotcomLimit

(* upper limits of the five reserve draws, lines 125-129 *)
PickCap(available) == Min(PickLimit, available)

PackCap(available, pick) == Min(PackLimit, available - pick)

MerchCap(available, pick, pack) == Min(MerchLimit, available - pick - pack)

DotcomCap(available) == Min(DotcomLimit, available)

RetailCap(available) == Min(RetailLimit, available)

(* lines 120-121 *)
SkulocQuantities ==
    /\ pc = "skuloc_quantities"
    /\ available_qty' \in RandInt(0, MaxAvailable)
    /\ \E extra \in RandInt(0, MaxOnhandExtra) :
        financial_onhand' = available_qty' + extra
    /\ pc' = "skuloc_reserves"
    /\ UNCHANGED <<config, ids, caller, error, i, inserts, skulocLoop,
                   ecomm_pick, ecomm_pack, merch_reserve, dotcom_reserve,
                   retail_reserve, channel, results, output>>

(* lines 124-131: has_reserves is the outcome of random.random() < 0.3 *)
SkulocReserves ==
    /\ pc = "skuloc_reserves"
    /\ \E has_reserves \in BOOLEAN :
        IF has_reserves
        THEN /\ ecomm_pick' \in RandInt(0, PickCap(available_qty))
             /\ ecomm_pack' \in RandInt(0, PackCap(available_qty, ecomm_pick'))
             /\ merch_reserve' \in
                    RandInt(0, MerchCap(available_qty, ecomm_pick', ecomm_pack'))
             /\ dotcom_reserve' \in RandInt(0, DotcomCap(available_qty))
             /\ retail_reserve' \in RandInt(0, RetailCap(available_qty))
        ELSE /\ ecomm_pick' = 0
             /\ ecomm_pack' = 0
             /\ merch_reserve' = 0
             /\ dotcom_reserve' = 0
             /\ retail_reserve' = 0
    /\ pc' = "skuloc_channel"
    /\ UNCHANGED <<config, ids, caller, error, i, inserts, skulocLoop,
                   available_qty, financial_onhand, channel, results, output>>

(* line 134: has_channel is the outcome of random.random() < 0.8 *)
SkulocChannel ==
    /\ pc = "skuloc_channel"
    /\ \E has_channel \in BOOLEAN :
        IF has_channel
        THEN channel' \in Range(channels)
        ELSE channel' = "None"
    /\ pc' = "skuloc_sql"
    /\ UNCHANGED <<config, ids, caller, error, i, inserts, skulocLoop,
                   available_qty, financial_onhand, ecomm_pick, ecomm_pack,
                   merch_reserve, dotcom_reserve, retail_reserve, results,
                   output>>

(* the body of the loop of line 118 is entered for one row *)
InitQty ==
    /\ num_locations = 1
    /\ num_skus = 1
    /\ skuloc_density = 70
    /\ num_reserves = 0
    /\ pc = "skuloc_quantities"
    /\ caller = "direct"
    /\ i = 0
    /\ Fresh

NextQty == SkulocQuantities \/ SkulocReserves \/ SkulocChannel

SpecQty == InitQty /\ [][NextQty]_vars

----------------------------------------------------------------------------
(* Properties *)

(* the INSERT rows of a table in the output file, in file order *)
RowsOf(table) ==
    SelectSeq(file, LAMBDA l : l.kind = "row" /\ l.table = table)

(* the skuloc rows generated so far *)
SkulocRows ==
    IF pc \in {"skuloc_sku", "skuloc_row"} THEN inserts ELSE skuloc_inserts

(* the values the console reports under a label *)
Reported(label) ==
    {console[k].value : k \in {n \in 1..Len(console) : console[n].label = label}}

(* C1: generate_location_master_inserts on a fresh generator returns       *)
(* exactly num_locations rows and leaves location_numbers equal to         *)
(* 1001, 1002, ..., 1000 + num_locations; while it runs, the identifiers   *)
(* appended so far are that sequence's prefix.                             *)
C1_LocationCountAndIds ==
    /\ \A k \in 1..Len(location_numbers) : location_numbers[k] = 1000 + k
    /\ Len(inserts) = Len(location_numbers)
    /\ pc = "done" =>
        /\ Len(location_inserts) = num_locations
        /\ Len(location_numbers) = num_locations
        /\ \A k \in 1..num_locations :
            location_inserts[k].loc_number = 1000 + k

C1_Witness ==
    /\ pc = "done"
    /\ num_locations = 50
    /\ Len(location_inserts) = 50
    /\ location_numbers[50] = 1050

(* C5 (as claimed): the first 80% of the num_locations positions are       *)
(* STORE, the next 10% DC and the last 10% VENDOR; stated for the counts   *)
(* (multiples of ten, such as 100) whose 80% and 90% are whole numbers.    *)
C5_ProportionalCategories ==
    (pc = "done" /\ num_locations % 10 = 0) =>
        \A k \in 1..Len(location_inserts) :
            location_inserts[k].loc_type =
                IF 10 * k <= 8 * num_locations THEN "STORE"
                ELSE IF 10 * k <= 9 * num_locations THEN "DC"
                ELSE "VENDOR"

(* the row's quantities have been drawn *)
QuantitiesDrawn == pc \in {"skuloc_channel", "skuloc_sql"}

C4_DepletingBudget ==
    QuantitiesDrawn =>
        /\ ecomm_pick >= 0
        /\ ecomm_pack >= 0
        /\ merch_reserve >= 0
        /\ ecomm_pick + ecomm_pack + merch_reserve <= available_qty

C4_Witness ==
    /\ pc = "skuloc_sql"
    /\ ecomm_pick > 0
    /\ ecomm_pack > 0
    /\ merch_reserve > 0
    /\ merch_reserve < MerchLimit
    /\ ecomm_pick + ecomm_pack + merch_reserve = available_qty

(* the configuration of the end-to-end scenario *)
EndToEndScenario ==
    /\ num_locations = 1
    /\ num_skus = 1
    /\ skuloc_density = 100
    /\ num_reserves = 1

RowsOfSku(sku_id) ==
    Cardinality({k \in 1..Len(SkulocRows) : SkulocRows[k].sku_id = sku_id})

(* C6 (as claimed): for every density 0 < D <= 1 a product gets at most    *)
(* floor(location count * D) skuloc rows.                                  *)
C6_RowsWithinDensityCeiling ==
    \A k \in 1..Len(sku_ids) :
        100 * RowsOfSku(sku_ids[k]) <= Len(location_numbers) * skuloc_density

(* C7 (as claimed): for all counts generate_rsvehr_inserts raises nothing  *)
(* and returns num_reserves rows, each with a sku_id of sku_ids and a      *)
(* location_number of location_numbers.                                    *)
C7_ReservationsComplete ==
    /\ error = "none"
    /\ pc \in {"write_rsvehrs", "done"} =>
        /\ Len(rsvehr_inserts) = num_reserves
        /\ \A k \in 1..Len(rsvehr_inserts) :
            /\ rsvehr_inserts[k].sku_id \in Range(sku_ids)
            /\ rsvehr_inserts[k].location_number \in Range(location_numbers)

(* C8: every skuloc row has a location_number the location stage produced  *)
(* and a sku_id in 10000..10000+num_skus-1, and the rows are in ascending  *)
(* product order (so the rows of a product are contiguous).                *)
C8_SkulocReferences ==
    \A k \in 1..Len(SkulocRows) :
        /\ \E n \in 1..Len(location_inserts) :
            location_inserts[n].loc_number = SkulocRows[k].location_number
        /\ SkulocRows[k].sku_id \in 10000..(10000 + num_skus - 1)
        /\ k > 1 => SkulocRows[k - 1].sku_id <= SkulocRows[k].sku_id

C8_Witness ==
    /\ pc = "done"
    /\ Len(skuloc_inserts) = 4
    /\ skuloc_inserts[2].sku_id = 10000
    /\ skuloc_inserts[3].sku_id = 10001
    /\ skuloc_inserts[1].location_number # skuloc_inserts[2].location_number

(* the position of a file line in the fixed order of the sections *)
Section(l) ==
    IF l.kind \in {"header", "cleanup"} THEN 0
    ELSE IF l.kind \in {"footer", "commit"} THEN 4
    ELSE IF l.table = "location_master" THEN 1
    ELSE IF l.table = "skuloc" THEN 2
    ELSE 3

(* C9: in a completed run the file starts with the header block, its       *)
(* sections follow in the order location_master, skuloc, rsvehr, its last  *)
(* write is the COMMIT marker, and the console's count of each table is    *)
(* the number of that table's rows in the file.                            *)
C9_WriteOrderAndCounts ==
    pc = "done" =>
        /\ file[1].kind = "header"
        /\ file[Len(file)].kind = "commit"
        /\ \A a, b \in 1..Len(file) : a < b => Section(file[a]) <= Section(file[b])
        /\ \A t \in {"location_master", "skuloc", "rsvehr"} :
            Reported(t) = {Len(RowsOf(t))}

C9_Witness ==
    /\ pc = "done"
    /\ Len(RowsOf("location_master")) = 3
    /\ Len(RowsOf("skuloc")) = 2
    /\ Len(RowsOf("rsvehr")) = 1

(* C10: no two skuloc rows of a run share (sku_id, location_number).       *)
C10_DistinctPairs ==
    \A a, b \in 1..Len(SkulocRows) :
        a # b =>
            <<SkulocRows[a].sku_id, SkulocRows[a].location_number>>
                # <<SkulocRows[b].sku_id, SkulocRows[b].location_number>>

C10_Witness ==
    /\ pc = "done"
    /\ \E a, b \in 1..Len(skuloc_inserts) :
        /\ a # b
        /\ skuloc_inserts[a].sku_id = skuloc_inserts[b].sku_id
    /\ \E a, b \in 1..Len(skuloc_inserts) :
        /\ a # b
        /\ skuloc_inserts[a].location_number = skuloc_inserts[b].location_number

====
